---- MODULE Spec2Model ----
(***************************************************************************)
(* Model of python-service/app.py: the Flask facade for the Facebook OAuth *)
(* flow (login-url, callback) and the Graph endpoints (get-campaigns,      *)
(* get-campaign-ads, get-ad-accounts).                                     *)
(*                                                                         *)
(* Every request is served by its own handler thread; the only state the   *)
(* handlers share is the PendingAuth table kept by facebook_auth.  The     *)
(* facebook_integration / facebook_api modules are imported by app.py but  *)
(* their code is not part of the source tree: StateStore, TokenCipher,     *)
(* PermissionGate and the page loop of the GraphClient are modelled from   *)
(* their contracts, the handlers from app.py line by line.                 *)
(***************************************************************************)
EXTENDS Integers, Sequences, FiniteSets, TLC

VARIABLES
    pending,    \* StateStore: the PendingAuth table (shared, mutable)
    nextState,  \* StateStore: index of the next fresh state token
    now,        \* wall clock read by the StateStore
    stored,     \* sealed credentials the client persisted (with, as history, the
                \* access token each was sealed from)
    th,         \* one record per handler thread: position, inputs, locals, response
    issued,     \* history: every PendingAuth ever recorded
    consumed,   \* history: per state token, how many callbacks passed verify_state
    exchanged   \* history: per state value, how many code exchanges were requested

vars == <<pending, nextState, now, stored, th, issued, consumed, exchanged>>

----------------------------------------------------------------------------
(* Bounds *)

NumReq    == 2   \* handler threads that can be in flight together
MaxStates == 2   \* state tokens the StateStore mints in one run
MaxTime   == 2   \* last clock tick
MaxPages  == 3   \* pages of the longest listing the provider serves

Req == 1..NumReq

----------------------------------------------------------------------------
(* Values *)

\* Python's None (a missing JSON key, a failed lookup, a failed decrypt).
None == "<None>"

\* `not v` of Python for strings and None.
Falsy(v) == v = None \/ v = ""

Users        == {"u1", "u2"}
UserIdInputs == Users \cup {"", None}

StateTokens == {ToString(i) : i \in 1..MaxStates}
\* a value that is no state token of the StateStore
Forged == "forged"
CodeInputs  == {"c1", None}

AccessTokens == {"", "tokA"}

Scopes         == {"ads_read", "ads_management", "email"}
RequiredScopes == {"ads_read", "ads_management"}
\* scope sets the identity endpoint reports: complete, complete with an extra
\* scope, one required scope missing, nothing granted
GrantedChoices ==
    { {"ads_read", "ads_management"}, Scopes, {"ads_read", "email"}, {} }

\* user_info['permissions'] before the identity endpoint answered
NoGrant == {None}

IdInputs == {"id1", None}

\* StateStore time-to-live of a PendingAuth, in clock ticks
TTL == 1

----------------------------------------------------------------------------
(* TokenCipher: authenticated symmetric encryption, modelled symbolically. *)
(* A ciphertext names the key it was made with and hides the plaintext; a  *)
(* MAC names its key and the ciphertext it covers.                         *)

SecretKey == "k_service"
OtherKey  == "k_other"

Encrypt(k, x) == [key |-> k, pt |-> x]
Mac(k, c)     == [mkey |-> k, over |-> c]

SealWith(k, x) ==
    [present |-> TRUE, ct |-> Encrypt(k, x), mac |-> Mac(k, Encrypt(k, x))]

\* facebook_auth.encrypt_token
encrypt_token(x) == SealWith(SecretKey, x)

\* no encrypted_token at all (key absent from the body / from the response)
NoSealed ==
    [present |-> FALSE, ct |-> Encrypt("", ""), mac |-> Mac("", Encrypt("", ""))]

\* bytes that are no output of any seal
Garbage ==
    [present |-> TRUE, ct |-> Encrypt("", "zz"), mac |-> Mac("", Encrypt("", ""))]

\* a sealed credential whose ciphertext was altered after sealing
Tamper(s, y) == [s EXCEPT !.ct = Encrypt(s.ct.key, y)]

\* facebook_auth.decrypt_token: None unless the MAC verifies under the service key
decrypt_token(s) ==
    IF s.present /\ s.ct.key = SecretKey /\ s.mac = Mac(SecretKey, s.ct)
    THEN s.ct.pt
    ELSE None

BadSealed ==
    {NoSealed, Garbage}
      \cup {SealWith(OtherKey, "tokA")}
      \cup {Tamper(encrypt_token("tokA"), "tokB")}

----------------------------------------------------------------------------
(* PermissionGate *)

\* PermissionGate.check under a policy `required`
PermissionCheck(required, granted) ==
    LET missing == {x \in required : x \notin granted}
    IN  [valid |-> missing = {}, missing_permissions |-> missing]

\* facebook_auth.verify_permissions: the check under the configured policy
verify_permissions(granted) == PermissionCheck(RequiredScopes, granted)

----------------------------------------------------------------------------
(* StateStore *)

Expired(p) == now > p.expires_at

Live(s) == {p \in pending : p.state_token = s /\ ~Expired(p)}

\* facebook_auth.verify_state: the bound user_id of a live entry, else None
verify_state(s) ==
    IF Live(s) = {} THEN None ELSE (CHOOSE p \in Live(s) : TRUE).user_id

\* the table after verify_state(s): delete-on-read, expired entries purged on lookup
AfterConsume(s) == {p \in pending : p.state_token # s}

----------------------------------------------------------------------------
(* Exceptions and messages.  A message is its text plus the cleartext      *)
(* access token it spells out, if any; an exception is a message raised as *)
(* one of the failure kinds of the library.                                *)

Msg(t) == [text |-> t, tok |-> None]
NoMsg  == Msg(None)

\* what went wrong in an external call: it ran out of time, or the provider
\* answered with a refusal
ExcKinds == {"timeout", "refused"}

ExcTexts == {"Request failed", "Upstream error"}

\* exceptions a library call can raise while it holds the access token `t`:
\* the text is the library's own and may quote the request it made
Raised(t) ==
    {[kind |-> c, text |-> x, tok |-> k] : c \in ExcKinds, x \in ExcTexts, k \in {None, t}}

\* str(e)
Str(e) == [text |-> e.text, tok |-> e.tok]

\* data.get(...) on a body that is not a JSON object
BodyError ==
    [kind |-> "AttributeError", text |-> "'NoneType' object has no attribute 'get'",
     tok |-> None]

----------------------------------------------------------------------------
(* Responses: jsonify(...) and the status code *)

NoResp ==
    [status |-> 0, success |-> FALSE, error |-> NoMsg, missing_permissions |-> {},
     user_id |-> None, facebook_user |-> NoGrant, encrypted_token |-> NoSealed,
     payload |-> None, items |-> <<>>]

Failure(status, msg) == [NoResp EXCEPT !.status = status, !.error = msg]

Idle ==
    [kind |-> "idle", pc |-> "idle",
     user_id |-> None, code |-> None, state |-> None,
     ad_account_id |-> None, campaign_id |-> None, encrypted_token |-> NoSealed,
     access_token |-> None, granted |-> NoGrant,
     calls |-> <<>>, sealed |-> None,
     listing |-> 0, acc |-> <<>>,
     resp |-> NoResp, log |-> NoMsg, exc |-> None]

Init ==
    /\ pending = {}
    /\ nextState = 1
    /\ now = 0
    /\ stored = {}
    /\ th = [r \in Req |-> Idle]
    /\ issued = {}
    /\ consumed = [s \in StateTokens |-> 0]
    /\ exchanged = [s \in StateTokens \cup {Forged} |-> 0]

\* return jsonify(...), status
Respond(r, t, resp) == th' = [th EXCEPT ![r] = [t EXCEPT !.pc = "done", !.resp = resp]]

\* except Exception as e: print(f'...: {e}'); return jsonify(error=str(e)), 500
Caught(r, t, e) ==
    th' = [th EXCEPT ![r] =
             [t EXCEPT !.pc = "done", !.resp = Failure(500, Str(e)), !.log = Str(e),
                       !.exc = e.kind]]

----------------------------------------------------------------------------
(* POST /api/facebook/login-url *)

\* StateStore.issue, inside facebook_auth.get_login_url
Issue(u) ==
    LET p == [state_token |-> ToString(nextState), user_id |-> u,
              created_at |-> now, expires_at |-> now + TTL]
    IN  /\ nextState <= MaxStates
        /\ pending' = pending \cup {p}
        /\ issued' = issued \cup {p}
        /\ nextState' = nextState + 1

get_login_url(r) ==
    /\ th[r].pc = "idle"
    /\ LET t0 == [Idle EXCEPT !.kind = "login"] IN
       \/ /\ Caught(r, t0, BodyError)
          /\ UNCHANGED <<pending, nextState, issued>>
       \/ \E u \in UserIdInputs :
            LET t == [t0 EXCEPT !.user_id = u] IN
            IF Falsy(u)
            THEN /\ Respond(r, t, Failure(400, Msg("user_id is required")))
                 /\ UNCHANGED <<pending, nextState, issued>>
            ELSE \/ /\ Issue(u)
                    /\ Respond(r, t, [NoResp EXCEPT !.status = 200, !.success = TRUE,
                                                    !.payload = ToString(nextState)])
                 \/ /\ \E e \in Raised(None) : Caught(r, t, e)
                    /\ UNCHANGED <<pending, nextState, issued>>
    /\ UNCHANGED <<now, stored, consumed, exchanged>>

----------------------------------------------------------------------------
(* POST /api/facebook/callback *)

\* what a client can send as state: a token the StateStore has handed out
\* (tokens are unpredictable, none is known before it is minted), a forged
\* value, or nothing
StateInputs == {p.state_token : p \in issued} \cup {Forged, None}

\* lines 62-71: read the body, require code and state
handle_callback(r) ==
    /\ th[r].pc = "idle"
    /\ LET t0 == [Idle EXCEPT !.kind = "callback"] IN
       \/ Caught(r, t0, BodyError)
       \/ \E c \in CodeInputs, s \in StateInputs :
            LET t == [t0 EXCEPT !.code = c, !.state = s] IN
            IF Falsy(c) \/ Falsy(s)
            THEN Respond(r, t, Failure(400, Msg("code and state are required")))
            ELSE th' = [th EXCEPT ![r] = [t EXCEPT !.pc = "verify"]]
    /\ UNCHANGED <<pending, nextState, now, stored, issued, consumed, exchanged>>

\* CallbackVerify without the `if not user_id` rejection of lines 75-79
CallbackVerify_NoCheck(r) ==
    /\ th[r].pc = "verify"
    /\ LET t   == th[r]
           uid == verify_state(t.state)
       IN  /\ pending' = AfterConsume(t.state)
           /\ th' = [th EXCEPT ![r] = [t EXCEPT !.pc = "exchange", !.user_id = uid]]
           /\ consumed' = [s \in StateTokens |->
                             IF s = t.state THEN consumed[s] + 1 ELSE consumed[s]]
    /\ UNCHANGED <<nextState, now, stored, issued, exchanged>>

\* lines 73-79: verify state
CallbackVerify(r) ==
    /\ th[r].pc = "verify"
    /\ LET t   == th[r]
           uid == verify_state(t.state)
       IN  /\ pending' = AfterConsume(t.state)
           /\ IF Falsy(uid)
              THEN /\ Respond(r, t, Failure(400, Msg("Invalid or expired state")))
                   /\ UNCHANGED consumed
              ELSE /\ th' = [th EXCEPT ![r] = [t EXCEPT !.pc = "exchange",
                                                        !.user_id = uid]]
                   /\ consumed' = [consumed EXCEPT ![t.state] = @ + 1]
    /\ UNCHANGED <<nextState, now, stored, issued, exchanged>>

\* CallbackExchange that puts the PendingAuth back when the exchange fails
CallbackExchange_Rollback(r) ==
    /\ th[r].pc = "exchange"
    /\ LET t == [th[r] EXCEPT !.calls = Append(@, "oauth/access_token")] IN
       \/ /\ \E a \in AccessTokens :
               th' = [th EXCEPT ![r] = [t EXCEPT !.pc = "user_info", !.access_token = a]]
          /\ UNCHANGED pending
       \/ /\ \E e \in Raised(None) : Caught(r, t, e)
          /\ pending' = pending \cup {p \in issued : p.state_token = t.state}
    /\ exchanged' = [exchanged EXCEPT ![th[r].state] = @ + 1]
    /\ UNCHANGED <<nextState, now, stored, issued, consumed>>

\* lines 81-83: exchange code for token
CallbackExchange(r) ==
    /\ th[r].pc = "exchange"
    /\ LET t == [th[r] EXCEPT !.calls = Append(@, "oauth/access_token")] IN
       \/ \E a \in AccessTokens :
            th' = [th EXCEPT ![r] = [t EXCEPT !.pc = "user_info", !.access_token = a]]
       \/ \E e \in Raised(None) : Caught(r, t, e)
    /\ exchanged' = [exchanged EXCEPT ![th[r].state] = @ + 1]
    /\ UNCHANGED <<pending, nextState, now, stored, issued, consumed>>

\* lines 85-86: get user info and permissions
CallbackUserInfo(r) ==
    /\ th[r].pc = "user_info"
    /\ LET t == [th[r] EXCEPT !.calls = Append(@, "me")] IN
       \/ \E g \in GrantedChoices :
            th' = [th EXCEPT ![r] = [t EXCEPT !.pc = "permissions", !.granted = g]]
       \/ \E e \in Raised(t.access_token) : Caught(r, t, e)
    /\ UNCHANGED <<pending, nextState, now, stored, issued, consumed, exchanged>>

\* CallbackPermissions whose result is not looked at
CallbackPermissions_Skip(r) ==
    /\ th[r].pc = "permissions"
    /\ th' = [th EXCEPT ![r] = [th[r] EXCEPT !.pc = "ad_accounts"]]
    /\ UNCHANGED <<pending, nextState, now, stored, issued, consumed, exchanged>>

\* CallbackPermissions answering 403 without the missing_permissions field
CallbackPermissions_NoMissing(r) ==
    /\ th[r].pc = "permissions"
    /\ LET t          == th[r]
           perm_check == verify_permissions(t.granted)
       IN  IF ~perm_check.valid
           THEN Respond(r, t, Failure(403, Msg("Missing required permissions")))
           ELSE th' = [th EXCEPT ![r] = [t EXCEPT !.pc = "ad_accounts"]]
    /\ UNCHANGED <<pending, nextState, now, stored, issued, consumed, exchanged>>

\* lines 88-95: verify permissions
CallbackPermissions(r) ==
    /\ th[r].pc = "permissions"
    /\ LET t          == th[r]
           perm_check == verify_permissions(t.granted)
       IN  IF ~perm_check.valid
           THEN Respond(r, t, [Failure(403, Msg("Missing required permissions"))
                                 EXCEPT !.missing_permissions =
                                            perm_check.missing_permissions])
           ELSE th' = [th EXCEPT ![r] = [t EXCEPT !.pc = "ad_accounts"]]
    /\ UNCHANGED <<pending, nextState, now, stored, issued, consumed, exchanged>>

\* lines 97-98: get ad accounts
CallbackAdAccounts(r) ==
    /\ th[r].pc = "ad_accounts"
    /\ LET t == [th[r] EXCEPT !.calls = Append(@, "me/adaccounts")] IN
       \/ th' = [th EXCEPT ![r] = [t EXCEPT !.pc = "encrypt"]]
       \/ \E e \in Raised(t.access_token) : Caught(r, t, e)
    /\ UNCHANGED <<pending, nextState, now, stored, issued, consumed, exchanged>>

\* CallbackEncrypt returning the provider's user in the user_id field
CallbackEncrypt_FbUser(r) ==
    /\ th[r].pc = "encrypt"
    /\ LET t               == th[r]
           encrypted_token == encrypt_token(t.access_token)
       IN  Respond(r, [t EXCEPT !.sealed = t.access_token],
                   [NoResp EXCEPT !.status = 200, !.success = TRUE,
                                  !.user_id = "fb_user",
                                  !.facebook_user = t.granted,
                                  !.encrypted_token = encrypted_token,
                                  !.payload = "ad_accounts"])
    /\ UNCHANGED <<pending, nextState, now, stored, issued, consumed, exchanged>>

\* CallbackEncrypt sealing the authorization code in place of the access token
CallbackEncrypt_SealsCode(r) ==
    /\ th[r].pc = "encrypt"
    /\ LET t               == th[r]
           encrypted_token == encrypt_token(t.code)
       IN  Respond(r, [t EXCEPT !.sealed = t.access_token],
                   [NoResp EXCEPT !.status = 200, !.success = TRUE,
                                  !.user_id = t.user_id,
                                  !.facebook_user = t.granted,
                                  !.encrypted_token = encrypted_token,
                                  !.payload = "ad_accounts"])
    /\ UNCHANGED <<pending, nextState, now, stored, issued, consumed, exchanged>>

\* lines 100-111: encrypt token for storage, return the success body
CallbackEncrypt(r) ==
    /\ th[r].pc = "encrypt"
    /\ LET t               == th[r]
           encrypted_token == encrypt_token(t.access_token)
       IN  Respond(r, [t EXCEPT !.sealed = t.access_token],
                   [NoResp EXCEPT !.status = 200, !.success = TRUE,
                                  !.user_id = t.user_id,
                                  !.facebook_user = t.granted,
                                  !.encrypted_token = encrypted_token,
                                  !.payload = "ad_accounts"])
    /\ UNCHANGED <<pending, nextState, now, stored, issued, consumed, exchanged>>

----------------------------------------------------------------------------
(* Graph endpoints *)

\* the provider serves a listing in pages of PageSize objects; pages are
\* disjoint and page i names the cursor of page i + 1 unless it is the last
PageSize == 2

Page(i) == [k \in 1..PageSize |-> PageSize * (i - 1) + k]

\* a listing is known by the number of its pages
Listings == 1..MaxPages

\* the whole listing of n pages, in page order
RECURSIVE Concat(_)
Concat(n) == IF n = 0 THEN <<>> ELSE Concat(n - 1) \o Page(n)

\* GraphClient after its next page request was answered: one more call made,
\* the page appended to what it gathered
PageFetched(t) ==
    [t EXCEPT !.calls = Append(@, t.kind), !.acc = @ \o Page(Len(t.calls) + 1)]

\* GraphClient after its next page request failed
PageFailed(t) == [t EXCEPT !.calls = Append(@, t.kind)]

\* WithToken without the `if not access_token` rejection
WithToken_NoCheck(r, t, enc) ==
    \E n \in Listings :
        th' = [th EXCEPT ![r] = [t EXCEPT !.pc = "fetch", !.listing = n,
                                          !.access_token = decrypt_token(enc)]]

\* lines 141-147, 185-191, 221-227: decrypt token, 401 if there is none.  The
\* request then goes to the Graph call, where the provider holds some listing
\* for it.
WithToken(r, t, enc) ==
    LET access_token == decrypt_token(enc) IN
    IF Falsy(access_token)
    THEN Respond(r, t, Failure(401, Msg("Invalid or missing access token")))
    ELSE \E n \in Listings :
            th' = [th EXCEPT ![r] = [t EXCEPT !.pc = "fetch", !.listing = n,
                                              !.access_token = access_token]]

EncInputs == {c.encrypted_token : c \in stored} \cup BadSealed

\* POST /api/facebook/get-campaigns, up to the Graph call
get_campaigns(r) ==
    /\ th[r].pc = "idle"
    /\ LET t0 == [Idle EXCEPT !.kind = "campaigns"] IN
       \/ Caught(r, t0, BodyError)
       \/ \E a \in IdInputs, enc \in EncInputs :
            LET t == [t0 EXCEPT !.ad_account_id = a, !.encrypted_token = enc] IN
            IF Falsy(a)
            THEN Respond(r, t, Failure(400, Msg("ad_account_id is required")))
            ELSE WithToken(r, t, enc)
    /\ UNCHANGED <<pending, nextState, now, stored, issued, consumed, exchanged>>

\* POST /api/facebook/get-campaign-ads, up to the Graph call
get_campaign_ads(r) ==
    /\ th[r].pc = "idle"
    /\ LET t0 == [Idle EXCEPT !.kind = "ads"] IN
       \/ Caught(r, t0, BodyError)
       \/ \E a \in IdInputs, c \in IdInputs, enc \in EncInputs :
            LET t == [t0 EXCEPT !.ad_account_id = a, !.campaign_id = c,
                                !.encrypted_token = enc] IN
            IF Falsy(c)
            THEN Respond(r, t, Failure(400, Msg("campaign_id is required")))
            ELSE WithToken(r, t, enc)
    /\ UNCHANGED <<pending, nextState, now, stored, issued, consumed, exchanged>>

\* POST /api/facebook/get-ad-accounts, up to the Graph call
get_ad_accounts(r) ==
    /\ th[r].pc = "idle"
    /\ LET t0 == [Idle EXCEPT !.kind = "accounts"] IN
       \/ Caught(r, t0, BodyError)
       \/ \E enc \in EncInputs :
            WithToken(r, [t0 EXCEPT !.encrypted_token = enc], enc)
    /\ UNCHANGED <<pending, nextState, now, stored, issued, consumed, exchanged>>

\* inside api.get_campaigns / api.get_all_campaign_ads / get_ad_accounts: a
\* page that names a next cursor came back, the client follows the cursor
GraphPage(r) ==
    /\ th[r].pc = "fetch"
    /\ Len(th[r].calls) + 1 < th[r].listing
    /\ th' = [th EXCEPT ![r] = PageFetched(th[r])]
    /\ UNCHANGED <<pending, nextState, now, stored, issued, consumed, exchanged>>

\* GraphFetch whose 500 answer carries the pages gathered before the failure
GraphFetch_Partial(r) ==
    /\ th[r].pc = "fetch"
    /\ \/ /\ Len(th[r].calls) + 1 = th[r].listing
          /\ LET t == PageFetched(th[r]) IN
             Respond(r, t, [NoResp EXCEPT !.status = 200, !.success = TRUE,
                                          !.payload = t.kind, !.items = t.acc])
       \/ \E e \in Raised(th[r].access_token) :
             Respond(r, [PageFailed(th[r]) EXCEPT !.log = Str(e), !.exc = e.kind],
                     [Failure(500, Str(e)) EXCEPT !.items = th[r].acc])
    /\ UNCHANGED <<pending, nextState, now, stored, issued, consumed, exchanged>>

\* GraphFetch sending the last page in place of everything gathered
GraphFetch_LastPage(r) ==
    /\ th[r].pc = "fetch"
    /\ \/ /\ Len(th[r].calls) + 1 = th[r].listing
          /\ LET t == PageFetched(th[r]) IN
             Respond(r, t, [NoResp EXCEPT !.status = 200, !.success = TRUE,
                                          !.payload = t.kind,
                                          !.items = Page(t.listing)])
       \/ \E e \in Raised(th[r].access_token) : Caught(r, PageFailed(th[r]), e)
    /\ UNCHANGED <<pending, nextState, now, stored, issued, consumed, exchanged>>

\* lines 149-164, 193-208, 229-241: the Graph call returns what the client
\* gathered and the handler sends it, or the call raises and the handler
\* answers 500
GraphFetch(r) ==
    /\ th[r].pc = "fetch"
    /\ \/ /\ Len(th[r].calls) + 1 = th[r].listing
          /\ LET t == PageFetched(th[r]) IN
             Respond(r, t, [NoResp EXCEPT !.status = 200, !.success = TRUE,
                                          !.payload = t.kind, !.items = t.acc])
       \/ \E e \in Raised(th[r].access_token) : Caught(r, PageFailed(th[r]), e)
    /\ UNCHANGED <<pending, nextState, now, stored, issued, consumed, exchanged>>

----------------------------------------------------------------------------
(* Environment *)

\* the response leaves the service; the client keeps a sealed credential it got
Reply(r) ==
    /\ th[r].pc = "done"
    /\ stored' = IF th[r].kind = "callback" /\ th[r].resp.status = 200
                 THEN stored \cup {[encrypted_token |-> th[r].resp.encrypted_token,
                                    access_token |-> th[r].sealed]}
                 ELSE stored
    /\ th' = [th EXCEPT ![r] = Idle]
    /\ UNCHANGED <<pending, nextState, now, issued, consumed, exchanged>>

Tick ==
    /\ now < MaxTime
    /\ now' = now + 1
    /\ UNCHANGED <<pending, nextState, stored, th, issued, consumed, exchanged>>

\* StateStore's periodic sweep of expired entries
Sweep ==
    /\ \E p \in pending : Expired(p)
    /\ pending' = {p \in pending : ~Expired(p)}
    /\ UNCHANGED <<nextState, now, stored, th, issued, consumed, exchanged>>

\* one step of the handler thread r
Handler(r) ==
    \/ get_login_url(r)
    \/ handle_callback(r)
    \/ CallbackVerify(r)
    \/ CallbackExchange(r)
    \/ CallbackUserInfo(r)
    \/ CallbackPermissions(r)
    \/ CallbackAdAccounts(r)
    \/ CallbackEncrypt(r)
    \/ Reply(r)

GraphHandler(r) ==
    \/ get_campaigns(r)
    \/ get_campaign_ads(r)
    \/ get_ad_accounts(r)
    \/ GraphPage(r)
    \/ GraphFetch(r)

(* The OAuth flow under request-parallel scheduling: NumReq handler threads *)
(* interleave at every step.  Requests are well-formed (the 400 and 500     *)
(* answers to a malformed body are local to one request) and the data the   *)
(* provider hands back is held to one value per outcome (Coarse); the       *)
(* handlers share nothing but the PendingAuth table, so the data of one     *)
(* request cannot steer another.  SpecSeq below has the full range.         *)
Coarse ==
    \A r \in Req :
        /\ th[r].access_token # ""
        /\ th[r].granted # RequiredScopes
        /\ th[r].resp.error.text # "Upstream error"
        /\ th[r].exc # "refused"
        /\ th[r].resp.error.tok = None
        /\ th[r].pc = "permissions" => th[r].granted # {}
        /\ th[r].kind = "login" => th[r].resp.status # 500
        /\ th[r].resp.error.text \notin
               {BodyError.text, "user_id is required", "code and state are required"}

Next ==
    \E r \in Req :
        \/ get_login_url(r) /\ Coarse'
        \/ handle_callback(r) /\ Coarse'
        \/ CallbackVerify(r) /\ Coarse'
        \/ CallbackExchange(r) /\ Coarse'
        \/ CallbackUserInfo(r) /\ Coarse'
        \/ CallbackPermissions(r) /\ Coarse'
        \/ CallbackAdAccounts(r) /\ Coarse'
        \/ CallbackEncrypt(r) /\ Coarse'
        \/ Reply(r)

Spec == Init /\ [][Next]_vars

(* One client at a time, every endpoint, the full range of provider data,  *)
(* the clock and the sweep of the StateStore.                              *)
NextSeq ==
    \/ Handler(1)
    \/ GraphHandler(1)
    \/ Tick
    \/ Sweep

SpecSeq == Init /\ [][NextSeq]_vars

(* The OAuth endpoints under request-parallel scheduling with the full range *)
(* of requests and provider answers, no clock: the answers two requests get  *)
(* can be set side by side.                                                  *)
NextPar == \E r \in Req : Handler(r)

SpecPar == Init /\ [][NextPar]_vars

----------------------------------------------------------------------------
(* Properties *)

Callback(r) == th[r].kind = "callback"

\* the callback of thread r got past the state check (lines 73-79)
PassedState(r) ==
    /\ Callback(r)
    /\ \/ th[r].pc \in {"exchange", "user_info", "permissions", "ad_accounts", "encrypt"}
       \/ th[r].pc = "done" /\ th[r].calls # <<>>

InvalidState == Failure(400, Msg("Invalid or expired state"))

\* the callback of thread r was answered 400 "Invalid or expired state"
RejectedState(r) ==
    Callback(r) /\ th[r].pc = "done" /\ th[r].resp = InvalidState

\* C1: a state token is single-use.  At most one callback ever passes the
\* state check with a given token, and a callback that reaches the state check
\* with a token some callback already passed with is answered 400 "Invalid or
\* expired state" and goes no further.
C1_SingleUse ==
    /\ [](\A s \in StateTokens : consumed[s] <= 1)
    /\ [][\A r \in Req :
            ( /\ th[r].pc = "verify"
              /\ th'[r] # th[r]
              /\ th[r].state \in StateTokens
              /\ consumed[th[r].state] >= 1 )
            => ( /\ th'[r].pc = "done"
                 /\ th'[r].resp = InvalidState
                 /\ consumed' = consumed )]_vars

\* a replay: one callback succeeded with the token, another one carrying the
\* same code and state was rejected
C1_Witness ==
    \E r1, r2 \in Req :
        /\ r1 # r2
        /\ Callback(r1) /\ th[r1].pc = "done" /\ th[r1].resp.status = 200
        /\ RejectedState(r2)
        /\ th[r2].state = th[r1].state /\ th[r2].code = th[r1].code
        /\ consumed[th[r1].state] = 1

\* the callbacks being handled that carry token s
Contenders(s) == {r \in Req : Callback(r) /\ th[r].state = s}

\* C2: of the callbacks that carry the same state token and are handled
\* concurrently, in any interleaving, at most one passes the state check; once
\* all of them have done the state check exactly one callback has obtained the
\* bound user_id and gone on to the code exchange, and every other one found
\* the token absent and was rejected with 400.
C2_ExactlyOne ==
    \A s \in StateTokens :
        LET C == Contenders(s) IN
        /\ Cardinality({r \in C : PassedState(r)}) <= 1
        /\ (C # {} /\ \A r \in C : th[r].pc # "verify") =>
              /\ consumed[s] = 1
              /\ \A r \in C : PassedState(r) \/ RejectedState(r)
              /\ \A r \in C : PassedState(r) =>
                    \E p \in issued : p.state_token = s /\ p.user_id = th[r].user_id

\* two callbacks with one token overlap: one passed the state check and is
\* about to exchange its code when the other is rejected
C2_Witness ==
    \E r1, r2 \in Req :
        /\ r1 # r2
        /\ {r1, r2} \subseteq Contenders(th[r1].state)
        /\ PassedState(r1) /\ th[r1].pc = "exchange"
        /\ RejectedState(r2)

\* the identity endpoint answered the callback of thread r with its grant
Granted(r) == Callback(r) /\ th[r].granted # NoGrant

\* C3: permission verification comes before sealing.  A callback whose granted
\* scopes do not cover the required scopes never reaches the ad-account fetch
\* or the seal, its access token is never handed to encrypt_token, and its
\* response carries no encrypted_token.
C3_PermissionsBeforeSeal ==
    \A r \in Req :
        (Granted(r) /\ ~(RequiredScopes \subseteq th[r].granted)) =>
            /\ th[r].pc \in {"permissions", "done"}
            /\ th[r].sealed = None
            /\ ~th[r].resp.encrypted_token.present
            /\ th[r].resp.status # 200

\* an under-scoped grant was answered, with a real token in hand
C3_Witness ==
    \E r \in Req :
        /\ Granted(r) /\ th[r].granted = {"ads_read", "email"}
        /\ th[r].access_token = "tokA"
        /\ th[r].pc = "done"

\* C4: a consumed state token stays spent.  Once a callback has passed the
\* state check, no PendingAuth for its token is in the table again, whichever
\* later step of that callback fails, and a state check of that token finds
\* nothing.
C4_StaysSpent ==
    \A s \in StateTokens :
        consumed[s] >= 1 =>
            /\ \A p \in pending : p.state_token # s
            /\ verify_state(s) = None

\* a callback passed the state check and then failed in the ad-account fetch;
\* a retry with the same token was rejected
C4_Witness ==
    \E r1, r2 \in Req :
        /\ r1 # r2
        /\ PassedState(r1) /\ th[r1].pc = "done" /\ th[r1].resp.status = 500
        /\ Len(th[r1].calls) = 3
        /\ RejectedState(r2) /\ th[r2].state = th[r1].state
        /\ consumed[th[r1].state] = 1

\* C6: the user_id a callback works with and returns is the user_id the login
\* URL of its state token was requested for.
C6_UserBinding ==
    \A r \in Req :
        /\ PassedState(r) =>
              \E p \in issued : p.state_token = th[r].state /\ p.user_id = th[r].user_id
        /\ (Callback(r) /\ th[r].resp.status = 200) =>
              \E p \in issued : /\ p.state_token = th[r].state
                                /\ p.user_id = th[r].resp.user_id

\* two users hold login URLs; the callback of the second user's token returned
\* the second user while the first user's callback is in flight
C6_Witness ==
    \E r1, r2 \in Req :
        /\ r1 # r2
        /\ Callback(r1) /\ th[r1].resp.status = 200 /\ th[r1].resp.user_id = "u2"
        /\ PassedState(r2) /\ th[r2].user_id = "u1"
        /\ th[r1].state = "2" /\ th[r2].state = "1"

\* C5: no response body and no log line spells out the cleartext access
\* token; a credential leaves the service in sealed form only.
C5_NoCleartextToken ==
    \A r \in Req :
        /\ th[r].resp.error.tok = None
        /\ th[r].log.tok = None
        /\ th[r].resp.payload \notin AccessTokens \ {""}

\* the PendingAuth ever recorded for token s
IssuedFor(s) == {p \in issued : p.state_token = s}

\* C7: a state token older than its time-to-live is never accepted.  A callback
\* passes the state check only with a token issued at most TTL ago, and a state
\* check of a token issued longer ago answers 400 "Invalid or expired state",
\* whether the entry is still in the table or was swept.
C7_ExpiredRejected ==
    [][\A r \in Req :
         (th[r].pc = "verify" /\ th'[r] # th[r]) =>
            /\ th'[r].pc = "exchange" =>
                  \E p \in IssuedFor(th[r].state) : now <= p.created_at + TTL
            /\ (\E p \in IssuedFor(th[r].state) : now > p.created_at + TTL) =>
                  (th'[r].pc = "done" /\ th'[r].resp = InvalidState)]_vars

\* a token nobody used was presented after its time-to-live, its entry still in
\* the table at the state check's time or not, and was rejected
C7_Witness ==
    \E r \in Req :
        /\ RejectedState(r)
        /\ th[r].state \in StateTokens
        /\ consumed[th[r].state] = 0
        /\ \E p \in IssuedFor(th[r].state) : now > p.created_at + TTL

\* C8: the permission check is the set difference required minus granted; a
\* callback whose grant leaves a required scope out is answered 403 with
\* success false and missing_permissions equal to the difference, and a
\* callback whose grant covers the policy is not.
C8_PermissionDifference ==
    /\ \A g \in SUBSET Scopes :
          /\ verify_permissions(g).valid <=> (RequiredScopes \ g = {})
          /\ verify_permissions(g).missing_permissions = RequiredScopes \ g
          /\ PermissionCheck({}, g).valid
    /\ \A r \in Req :
          (Granted(r) /\ th[r].pc # "permissions") =>
              LET missing == RequiredScopes \ th[r].granted IN
              IF missing = {}
              THEN th[r].resp.status # 403 /\ th[r].resp.missing_permissions = {}
              ELSE /\ th[r].pc = "done"
                   /\ th[r].resp.status = 403
                   /\ ~th[r].resp.success
                   /\ th[r].resp.missing_permissions = missing

\* the grant omits one required scope and the answer names it
C8_Witness ==
    \E r \in Req :
        /\ Granted(r) /\ th[r].granted = {"ads_read", "email"}
        /\ th[r].resp.status = 403
        /\ th[r].resp.missing_permissions = {"ads_management"}

GraphKinds == {"campaigns", "ads", "accounts"}

\* the Graph request of thread r got as far as opening its encrypted_token
Opened(r) ==
    /\ th[r].kind \in GraphKinds
    /\ th[r].resp.error # Str(BodyError)
    /\ th[r].kind = "campaigns" => ~Falsy(th[r].ad_account_id)
    /\ th[r].kind = "ads" => ~Falsy(th[r].campaign_id)

InvalidCredential == Failure(401, Msg("Invalid or missing access token"))

\* C9: a Graph request whose encrypted_token opens to nothing is answered 401
\* "Invalid or missing access token" and makes no call to the Graph endpoint.
C9_InvalidCredential ==
    \A r \in Req :
        (Opened(r) /\ decrypt_token(th[r].encrypted_token) = None) =>
            /\ th[r].pc = "done"
            /\ th[r].resp = InvalidCredential
            /\ th[r].calls = <<>>

\* a credential sealed under another key was presented to get-campaign-ads
C9_Witness ==
    \E r \in Req :
        /\ th[r].kind = "ads"
        /\ Opened(r)
        /\ th[r].encrypted_token = SealWith(OtherKey, "tokA")
        /\ th[r].resp.status = 401

\* the sealed credentials of the client that thread r presented
Presented(r) == {c \in stored : c.encrypted_token = th[r].encrypted_token}

LaterPageFailed(r) ==
    /\ th[r].kind \in {"campaigns", "ads"}
    /\ th[r].pc = "done"
    /\ th[r].acc # <<>>
    /\ Len(th[r].acc) < PageSize * Len(th[r].calls)

\* C11: a paginated fetch is all-or-nothing.  When a page after the first
\* fails, the get-campaigns / get-campaign-ads request fails as a whole (500,
\* success false) and its response holds nothing of the pages already fetched.
C11_AllOrNothing ==
    \A r \in Req :
        LaterPageFailed(r) =>
            /\ th[r].resp.status = 500
            /\ ~th[r].resp.success
            /\ th[r].resp.items = <<>>
            /\ th[r].resp.payload = None

\* two pages of campaigns came back and the third page request failed
C11_Witness ==
    \E r \in Req :
        /\ LaterPageFailed(r)
        /\ th[r].kind = "campaigns"
        /\ Len(th[r].calls) = 3
        /\ th[r].acc = Concat(2)

\* C12: for a listing of n pages the fetch follows the cursors page by page,
\* makes exactly one request per page (n in all, never more, so it ends) and
\* returns the pages concatenated in page order.
C12_Pagination ==
    /\ [](/\ \A n \in Listings :
              /\ Len(Concat(n)) = PageSize * n
              /\ \A i \in 1..(PageSize * n) : Concat(n)[i] = i
          /\ \A r \in Req :
              th[r].kind \in GraphKinds =>
                  /\ Len(th[r].calls) <= th[r].listing
                  /\ th[r].pc = "fetch" => th[r].acc = Concat(Len(th[r].calls))
                  /\ (th[r].pc = "done" /\ th[r].resp.status = 200) =>
                        /\ Len(th[r].calls) = th[r].listing
                        /\ th[r].resp.items = Concat(th[r].listing))
    /\ [][\A r \in Req :
            (th[r].pc = "fetch" /\ th'[r] # th[r]) =>
                /\ Len(th'[r].calls) = Len(th[r].calls) + 1
                /\ th'[r].calls[Len(th'[r].calls)] = th[r].kind]_vars

\* a three-page campaign listing was fetched with three requests
C12_Witness ==
    \E r \in Req :
        /\ th[r].kind = "campaigns"
        /\ th[r].pc = "done" /\ th[r].resp.status = 200
        /\ th[r].listing = 3
        /\ Len(th[r].calls) = 3
        /\ th[r].resp.items = <<1, 2, 3, 4, 5, 6>>

\* the code exchange of thread r's callback failed, the library raising kind k
ExchangeFailedAs(r, k) ==
    /\ Callback(r)
    /\ th[r].pc = "done"
    /\ th[r].calls = <<"oauth/access_token">>
    /\ th[r].exc = k

\* C13: a callback whose code exchange timed out is answered differently from
\* a callback whose code exchange was refused: the two responses differ in
\* status or in error.
C13_TimeoutDistinct ==
    \A r1, r2 \in Req :
        (ExchangeFailedAs(r1, "timeout") /\ ExchangeFailedAs(r2, "refused")) =>
            \/ th[r1].resp.status # th[r2].resp.status
            \/ th[r1].resp.error # th[r2].resp.error

\* thread r answered its request with a failure
Failed(r) == th[r].pc = "done" /\ th[r].resp.status # 200

\* the kind of the failure thread r answered with: the kind of the exception
\* that reached the handler's except block, else the rejection the handler
\* itself decided on, which its fixed message names
FailureKind(r) == IF th[r].exc # None THEN th[r].exc ELSE th[r].resp.error.text

\* C14: the status and the error string of a failure depend on the kind of
\* failure only.  Two requests to one endpoint that fail with the same kind
\* get the same status and the same error, whatever text their exceptions
\* carry.
C14_StableMessage ==
    \A r1, r2 \in Req :
        ( /\ Failed(r1) /\ Failed(r2)
          /\ th[r1].kind = th[r2].kind
          /\ FailureKind(r1) = FailureKind(r2) ) =>
            /\ th[r1].resp.status = th[r2].resp.status
            /\ th[r1].resp.error = th[r2].resp.error

\* C15: a login-url request whose body supplies no non-empty user_id is
\* answered 400 and issues no state token: the PendingAuth table and the
\* StateStore are as they were.
C15_NoUserIdNoToken ==
    [][\A r \in Req :
         ( /\ th[r].pc = "idle"
           /\ th'[r].kind = "login"
           /\ Falsy(th'[r].user_id) ) =>
             /\ th'[r].pc = "done"
             /\ th'[r].resp.status = 400
             /\ pending' = pending
             /\ issued' = issued
             /\ nextState' = nextState]_vars

\* C16: a callback request that lacks a non-empty code or a non-empty state is
\* answered 400 before any state lookup: the PendingAuth table is unchanged (a
\* live token sent without a code is not consumed) and no external call is
\* made.
C16_FieldsBeforeLookup ==
    [][\A r \in Req :
         ( /\ th[r].pc = "idle"
           /\ th'[r].kind = "callback"
           /\ Falsy(th'[r].code) \/ Falsy(th'[r].state) ) =>
             /\ th'[r].pc = "done"
             /\ th'[r].resp.status = 400
             /\ th'[r].calls = <<>>
             /\ pending' = pending
             /\ consumed' = consumed]_vars

RECURSIVE Total(_, _)
\* the sum of f over S
Total(f, S) ==
    IF S = {} THEN 0
    ELSE LET x == CHOOSE y \in S : TRUE IN f[x] + Total(f, S \ {x})

C18_FieldBeforeCredential ==
    \A r \in Req :
        /\ ( \/ th[r].kind = "campaigns" /\ Falsy(th[r].ad_account_id)
             \/ th[r].kind = "ads" /\ Falsy(th[r].campaign_id) ) =>
               /\ th[r].pc = "done"
               /\ th[r].resp.status = 400
               /\ th[r].access_token = None
               /\ th[r].calls = <<>>
        /\ ( /\ th[r].kind = "ads"
             /\ ~Falsy(th[r].campaign_id)
             /\ Falsy(th[r].ad_account_id)
             /\ ~Falsy(decrypt_token(th[r].encrypted_token)) ) =>
               /\ th[r].resp.status \notin {400, 401}
               /\ th[r].access_token = decrypt_token(th[r].encrypted_token)
               /\ th[r].pc = "done" => th[r].calls # <<>>

====
